---- MODULE Spec2Model ----
(***************************************************************************)
(* Wall-following maze robot firmware (MSP432): the three moving-average   *)
(* low-pass filters (LPF.c), the distance calibration                      *)
(* (Analog_Distance_Sensors.c), the sampling task and the proportional     *)
(* controllers (Maze_Program/main.c), the decision-tree controller and     *)
(* main loop under the two periodic interrupts (Maze/main.c), the ADC wait *)
(* of Analog_Distance_Sensor_Start_Conversion, isqrt and Noise (LPF.c),    *)
(* OPT3101_GetMeasurement, the PWM and motor drivers (Timer_A0_PWM.c,      *)
(* Motor.c), and the color calibration (PMOD_Color.c).                     *)
(***************************************************************************)
EXTENDS Integers, Sequences, FiniteSets, TLC

VARIABLES
    \* LPF.c globals
    Size, x, I1, LPFSum,
    x2, Pt2, LPFSum2,
    x3, Pt3, LPFSum3,
    \* main.c globals
    Filtered_Distance_Left, Filtered_Distance_Center, Filtered_Distance_Right,
    Converted_Distance_Left, Converted_Distance_Center, Converted_Distance_Right,
    Error, Kp, Set_Point, Duty_Cycle_Left, Duty_Cycle_Right,
    \* the last command given to the motor driver
    Motor,
    \* bookkeeping of the calls made so far (not program state)
    depth, win, cnt, ret, uniform, ops, pc,
    \* interrupt controller: the priority Timer A1 got, the pending
    \* interrupts, the stack of active handlers, Timer A1 periods since the
    \* last SysTick interrupt
    TA1_Priority, pending, active, SysTick_Count,
    \* Clock_Delay1ms in progress: in the SysTick handler, in the main loop
    delay, hold, mainpc,
    \* bookkeeping: sampling invocations completed since the last controller
    \* invocation began, and whether one began at all
    since, entered,
    \* ADC14: the BUSY and IFG4 flags, the position of Start_Conversion, the
    \* polls of the flag it waits for, the three results it stored
    ADC14BUSY, ADC14IFG4, adcpc, polls, Ch,
    \* isqrt: its argument, its iterate and its loop counter
    isqrt_s, isqrt_t, isqrt_n,
    \* OPT3101: the two result registers as last read, the caller's arrays,
    \* the debugging monitor, the channel returned, the DATA_RDY flag P6.2
    reg08, reg09, distances, amplitudes, ChannelCount, channel, P6IFG,
    \* Timer A0 and the motor driver's pins: the period and the two compare
    \* registers, the control register, the OUT registers of P3 and P5;
    \* the driver function called last and whether it refused a duty
    \* (bookkeeping)
    TA0CCR0, TA0CCR3, TA0CCR4, TA0CTL, P3OUT, P5OUT, lastCall,
    \* the sampling task in progress: the three distances it computed and
    \* how many of them it has stored; bookkeeping: Timer A1 periods so far,
    \* the sampling invocation that stored each distance last, and the
    \* invocations whose side distances the controller in progress read
    fresh, samplepos, periods, stamp, sidesStamp,
    \* main's color sensor data: the sample (normalized in place), the
    \* calibration minima and maxima; whether a division by zero was
    \* executed (bookkeeping)
    pmod_color_data, calibration_data, divided_by_zero

vars == << Size, x, I1, LPFSum, x2, Pt2, LPFSum2, x3, Pt3, LPFSum3,
           Filtered_Distance_Left, Filtered_Distance_Center, Filtered_Distance_Right,
           Converted_Distance_Left, Converted_Distance_Center, Converted_Distance_Right,
           Error, Kp, Set_Point, Duty_Cycle_Left, Duty_Cycle_Right,
           Motor, depth, win, cnt, ret, uniform, ops, pc,
           TA1_Priority, pending, active, SysTick_Count, delay, hold, mainpc,
           since, entered, ADC14BUSY, ADC14IFG4, adcpc, polls, Ch,
           isqrt_s, isqrt_t, isqrt_n,
           reg08, reg09, distances, amplitudes, ChannelCount, channel, P6IFG,
           TA0CCR0, TA0CCR3, TA0CCR4, TA0CTL, P3OUT, P5OUT, lastCall,
           fresh, samplepos, periods, stamp, sidesStamp,
           pmod_color_data, calibration_data, divided_by_zero >>

lpfVars == << Size, x, I1, LPFSum, x2, Pt2, LPFSum2, x3, Pt3, LPFSum3 >>
distVars == << Filtered_Distance_Left, Filtered_Distance_Center, Filtered_Distance_Right,
               Converted_Distance_Left, Converted_Distance_Center, Converted_Distance_Right >>
ctlVars == << Error, Kp, Set_Point, Duty_Cycle_Left, Duty_Cycle_Right, Motor >>
callVars == << depth, win, cnt, ret, uniform, ops >>
irqVars == << TA1_Priority, pending, active, SysTick_Count, delay, hold, mainpc,
             since, entered >>
adcVars == << ADC14BUSY, ADC14IFG4, adcpc, polls, Ch >>
sqrtVars == << isqrt_s, isqrt_t, isqrt_n >>
\* the variables of the other modules of the firmware
optVars == << reg08, reg09, distances, amplitudes, ChannelCount, channel, P6IFG >>
pwmVars == << TA0CCR0, TA0CCR3, TA0CCR4, TA0CTL, P3OUT, P5OUT, lastCall >>
tornVars == << fresh, samplepos, periods, stamp, sidesStamp >>
pmodVars == << pmod_color_data, calibration_data, divided_by_zero >>
extVars == << sqrtVars, optVars, pwmVars, tornVars, pmodVars >>
\* extVars but one group
exSqrt == << optVars, pwmVars, tornVars, pmodVars >>
exOpt == << sqrtVars, pwmVars, tornVars, pmodVars >>
exPwm == << sqrtVars, optVars, tornVars, pmodVars >>
exTorn == << sqrtVars, optVars, pwmVars, pmodVars >>
exPmod == << sqrtVars, optVars, pwmVars, tornVars >>
hwVars == << irqVars, adcVars, extVars >>

----------------------------------------------------------------------------
(* Bounds of the model *)

\* largest filter depth requested at init (main.c requests 64)
MaxDepth == 3
\* number of LPF calls made one by one in the call-level specification
MaxOps == 5

\* raw ADC conversion results fed to the filters (14-bit, 0..16383)
RawSet == {0, 6001}
FilterDepths == 2..MaxDepth

\* Timer A1 periods (0.5 ms) between two SysTick interrupts (20 in the program)
SysTickPeriod == 2
\* Timer A1 periods Turn_Left waits (700 ms, 1400 periods in the program)
TurnLeftPeriods == 3
\* Timer A1 periods Handle_Red waits (5000 ms, 10000 periods in the program)
HoldPeriods == 3

\* number of LPF calls made one by one with depths up to and beyond the maxima
MaxDepthOps == 3

----------------------------------------------------------------------------
(* Program constants *)

ADC_MAX == 16383
LPF1_MAX == 1024
LPF23_MAX == 512
Ax == 1195159
Bx == -1058
Cx == 40
ANALOG_DISTANCE_SENSOR_MAX == 2552
DESIRED_DISTANCE == 250
PWM_NOMINAL == 2500
PWM_SWING == 1000
PWM_MIN == PWM_NOMINAL - PWM_SWING
PWM_MAX == PWM_NOMINAL + PWM_SWING

\* A uint32_t is kept as the int32_t with the same bits (v stands for v mod 2^32),
\* so that uint32_t +, - and the conversion to int are +, - and the identity.
INT_MAX == 2147483647
\* uint32_t / uint32_t for a divisor 2 <= n < 2^31
UDiv(a, n) ==
    IF a >= 0
    THEN a \div n
    ELSE LET hi == (a + INT_MAX) + 1
         IN (INT_MAX \div n) + (hi \div n) + (((INT_MAX % n) + 1 + (hi % n)) \div n)
\* the conversion of an int to uint16_t
U16(v) == v % 65536
\* C's / on int: truncation toward zero
CDiv(a, b) == IF (a >= 0) = (b > 0) THEN a \div b ELSE -((-a) \div b)

----------------------------------------------------------------------------
(* LPF.c: three moving-average filters sharing one Size *)

\* an array cell; a cell no call has written yet holds the 0 of a C global
Cell(buf, i) == IF i \in DOMAIN buf THEN buf[i] ELSE 0

Extent(buf) == Cardinality(DOMAIN buf)

\* for(i=0; i<n; i++) buf[i] = v;
Fill(buf, n, v) ==
    [i \in 0..((IF n > Extent(buf) THEN n ELSE Extent(buf)) - 1) |->
        IF i < n THEN v ELSE buf[i]]

\* buf[i] = v;
Put(buf, i, v) ==
    [j \in 0..((IF i + 1 > Extent(buf) THEN i + 1 ELSE Extent(buf)) - 1) |->
        IF j = i THEN v ELSE Cell(buf, j)]

\* the LPF.c globals as one record; y is the value the last Calc returned
LPFState ==
    [Size |-> Size, x |-> x, I1 |-> I1, LPFSum |-> LPFSum,
     x2 |-> x2, Pt2 |-> Pt2, LPFSum2 |-> LPFSum2,
     x3 |-> x3, Pt3 |-> Pt3, LPFSum3 |-> LPFSum3, y |-> 0]

SetLPF(f) ==
    /\ Size' = f.Size /\ x' = f.x /\ I1' = f.I1 /\ LPFSum' = f.LPFSum
    /\ x2' = f.x2 /\ Pt2' = f.Pt2 /\ LPFSum2' = f.LPFSum2
    /\ x3' = f.x3 /\ Pt3' = f.Pt3 /\ LPFSum3' = f.LPFSum3

LPF_Init(f, initial, size) ==
    LET sz == IF size > LPF1_MAX THEN LPF1_MAX ELSE size
    IN [f EXCEPT !.Size = sz,
                 !.I1 = sz - 1,
                 !.LPFSum = sz * initial,
                 !.x = Fill(f.x, sz, initial)]

\* LPF_Calc subtracting x[I1] before I1 is moved to the oldest slot
LPF_Calc_StaleIndex(f, newdata) ==
    LET i == IF f.I1 = 0 THEN f.Size - 1 ELSE f.I1 - 1
        s == f.LPFSum + newdata - Cell(f.x, f.I1)
    IN [f EXCEPT !.I1 = i,
                 !.LPFSum = s,
                 !.x = Put(f.x, i, newdata),
                 !.y = UDiv(s, f.Size)]

\* LPF_Calc whose index stops at 0 instead of wrapping to Size-1
LPF_Calc_NoWrap(f, newdata) ==
    LET i == IF f.I1 = 0 THEN 0 ELSE f.I1 - 1
        s == f.LPFSum + newdata - Cell(f.x, i)
    IN [f EXCEPT !.I1 = i,
                 !.LPFSum = s,
                 !.x = Put(f.x, i, newdata),
                 !.y = UDiv(s, f.Size)]

LPF_Calc(f, newdata) ==
    LET i == IF f.I1 = 0 THEN f.Size - 1 ELSE f.I1 - 1
        s == f.LPFSum + newdata - Cell(f.x, i)
    IN [f EXCEPT !.I1 = i,
                 !.LPFSum = s,
                 !.x = Put(f.x, i, newdata),
                 !.y = UDiv(s, f.Size)]

\* LPF_Init2 priming LPFSum, the first filter's sum, instead of LPFSum2
LPF_Init2_SharesSum(f, initial, size) ==
    LET sz == IF size > LPF23_MAX THEN LPF23_MAX ELSE size
    IN [f EXCEPT !.Size = sz,
                 !.Pt2 = 0,
                 !.LPFSum = sz * initial,
                 !.x2 = Fill(f.x2, 2 * sz, initial)]

\* Pt2 is kept as the offset of the pointer from &x2[0]
LPF_Init2(f, initial, size) ==
    LET sz == IF size > LPF23_MAX THEN LPF23_MAX ELSE size
    IN [f EXCEPT !.Size = sz,
                 !.Pt2 = 0,
                 !.LPFSum2 = sz * initial,
                 !.x2 = Fill(f.x2, 2 * sz, initial)]

\* LPF_Calc2 rounding to the nearest integer instead of truncating
LPF_Calc2_Rounded(f, newdata) ==
    LET p == IF f.Pt2 = 0 THEN f.Size - 1 ELSE f.Pt2 - 1
        s == f.LPFSum2 + newdata - Cell(f.x2, p)
    IN [f EXCEPT !.Pt2 = p,
                 !.LPFSum2 = s,
                 !.x2 = Put(Put(f.x2, p + f.Size, newdata), p, newdata),
                 !.y = UDiv(s + (f.Size \div 2), f.Size)]

LPF_Calc2(f, newdata) ==
    LET p == IF f.Pt2 = 0 THEN f.Size - 1 ELSE f.Pt2 - 1
        s == f.LPFSum2 + newdata - Cell(f.x2, p)
    IN [f EXCEPT !.Pt2 = p,
                 !.LPFSum2 = s,
                 !.x2 = Put(Put(f.x2, p + f.Size, newdata), p, newdata),
                 !.y = UDiv(s, f.Size)]

\* LPF_Init3 priming the sum with one copy of the seed instead of Size copies
LPF_Init3_SumSeed(f, initial, size) ==
    LET sz == IF size > LPF23_MAX THEN LPF23_MAX ELSE size
    IN [f EXCEPT !.Size = sz,
                 !.Pt3 = 0,
                 !.LPFSum3 = initial,
                 !.x3 = Fill(f.x3, 2 * sz, initial)]

LPF_Init3(f, initial, size) ==
    LET sz == IF size > LPF23_MAX THEN LPF23_MAX ELSE size
    IN [f EXCEPT !.Size = sz,
                 !.Pt3 = 0,
                 !.LPFSum3 = sz * initial,
                 !.x3 = Fill(f.x3, 2 * sz, initial)]

\* LPF_Calc3 dividing by Size-1, as Noise3 does for the variance
LPF_Calc3_DivSizeMinus1(f, newdata) ==
    LET p == IF f.Pt3 = 0 THEN f.Size - 1 ELSE f.Pt3 - 1
        s == f.LPFSum3 + newdata - Cell(f.x3, p)
    IN [f EXCEPT !.Pt3 = p,
                 !.LPFSum3 = s,
                 !.x3 = Put(Put(f.x3, p + f.Size, newdata), p, newdata),
                 !.y = UDiv(s, f.Size - 1)]

LPF_Calc3(f, newdata) ==
    LET p == IF f.Pt3 = 0 THEN f.Size - 1 ELSE f.Pt3 - 1
        s == f.LPFSum3 + newdata - Cell(f.x3, p)
    IN [f EXCEPT !.Pt3 = p,
                 !.LPFSum3 = s,
                 !.x3 = Put(Put(f.x3, p + f.Size, newdata), p, newdata),
                 !.y = UDiv(s, f.Size)]

----------------------------------------------------------------------------
(* Analog_Distance_Sensors.c *)

\* Calibrate returning the sentinel for a reading of exactly the threshold too
Analog_Distance_Sensor_Calibrate_Inclusive(filtered_distance) ==
    IF filtered_distance <= ANALOG_DISTANCE_SENSOR_MAX
    THEN 800
    ELSE CDiv(Ax, filtered_distance + Bx) + Cx

\* the parameter is an int: the uint32_t argument is converted on the call
Analog_Distance_Sensor_Calibrate(filtered_distance) ==
    IF filtered_distance < ANALOG_DISTANCE_SENSOR_MAX
    THEN 800
    ELSE CDiv(Ax, filtered_distance + Bx) + Cx

----------------------------------------------------------------------------
(* Bookkeeping of the calls: per filter k (1: LPF, 2: LPF2, 3: LPF3) the    *)
(* depth its own init was called with, the window it should then hold (its *)
(* own last depth[k] samples, the oldest first, padded with its own seed)  *)
(* and the number of its own Calc calls since its init (counted up to      *)
(* depth[k] + 1), and the value its last Calc returned.                    *)

EmptyBuf == [i \in {} |-> 0]

RECURSIVE SumSeq(_)
SumSeq(s) == IF s = <<>> THEN 0 ELSE Head(s) + SumSeq(Tail(s))

RECURSIVE SumCells(_, _)
\* buf[0] + ... + buf[n-1]
SumCells(buf, n) == IF n = 0 THEN 0 ELSE Cell(buf, n - 1) + SumCells(buf, n - 1)

SeqMin(s) == CHOOSE m \in {s[i] : i \in DOMAIN s} : \A i \in DOMAIN s : m <= s[i]
SeqMax(s) == CHOOSE m \in {s[i] : i \in DOMAIN s} : \A i \in DOMAIN s : m >= s[i]

Seeded(initial, size) == [i \in 1..size |-> initial]

Shift(w, v) == IF w = <<>> THEN w ELSE Append(Tail(w), v)

\* counted up to d + 1, which stands for any larger number
Count(c, d) == IF c <= d THEN c + 1 ELSE c

----------------------------------------------------------------------------
(* Maze_Program/main.c: the sampling task *)

\* the state of the C globals when main starts
LPF0 ==
    /\ Size = 0 /\ x = EmptyBuf /\ I1 = 0 /\ LPFSum = 0
    /\ x2 = EmptyBuf /\ Pt2 = 0 /\ LPFSum2 = 0
    /\ x3 = EmptyBuf /\ Pt3 = 0 /\ LPFSum3 = 0

Filtered0 ==
    /\ Filtered_Distance_Left = 0 /\ Filtered_Distance_Center = 0
    /\ Filtered_Distance_Right = 0

Converted0 ==
    /\ Converted_Distance_Left = 0 /\ Converted_Distance_Center = 0
    /\ Converted_Distance_Right = 0

Ctl0 ==
    /\ Error = 0 /\ Kp = 4 /\ Set_Point = 250
    /\ Duty_Cycle_Left = 0 /\ Duty_Cycle_Right = 0
    /\ Motor = [cmd |-> "None", left |-> 0, right |-> 0]

Calls0 ==
    /\ depth = <<0, 0, 0>> /\ win = << <<>>, <<>>, <<>> >>
    /\ cnt = <<0, 0, 0>> /\ ret = <<0, 0, 0>>
    /\ uniform = TRUE /\ ops = 0

\* interrupts disabled, nothing pending, Timer A1 and the ADC not started
Irq0 ==
    /\ TA1_Priority = 0 /\ pending = {} /\ active = <<>> /\ SysTick_Count = 0
    /\ delay = 0 /\ hold = 0 /\ mainpc = "init"
    /\ since = 0 /\ entered = FALSE

Adc0 ==
    /\ ADC14BUSY = FALSE /\ ADC14IFG4 = FALSE /\ adcpc = "idle" /\ polls = 0
    /\ Ch = <<0, 0, 0>>

Sqrt0 == isqrt_s = 0 /\ isqrt_t = 0 /\ isqrt_n = 0

Opt0 ==
    /\ reg08 = 0
    /\ reg09 = 0
    /\ distances = <<0, 0, 0>>
    /\ amplitudes = <<0, 0, 0>>
    /\ ChannelCount = <<0, 0, 0>>
    /\ channel = 0
    /\ P6IFG = FALSE

\* Timer A0 and the pins at reset
Pwm0 ==
    /\ TA0CCR0 = 0 /\ TA0CCR3 = 0 /\ TA0CCR4 = 0 /\ TA0CTL = 0
    /\ P3OUT = 0 /\ P5OUT = 0
    /\ lastCall = <<"reset", FALSE>>

\* no sampling invocation yet
Torn0 ==
    /\ fresh = <<0, 0, 0>> /\ samplepos = 0 /\ periods = 0
    /\ stamp = <<0, 0, 0>> /\ sidesStamp = <<0, 0>>

\* the four channels of a PMOD_Color_Data
PMOD_Channels == {"clear", "red", "green", "blue"}
PMOD_Zero == [ch \in PMOD_Channels |-> 0]

\* main's locals before the first sample
Pmod0 ==
    /\ pmod_color_data = PMOD_Zero
    /\ calibration_data = [min |-> PMOD_Zero, max |-> PMOD_Zero]
    /\ divided_by_zero = FALSE

Ext0 == Sqrt0 /\ Opt0 /\ Pwm0 /\ Torn0 /\ Pmod0

HW0 == Irq0 /\ Adc0 /\ Ext0

Globals0 == LPF0 /\ Filtered0 /\ Converted0 /\ Ctl0 /\ Calls0 /\ HW0

Reset == Globals0 /\ pc = "reset"

\* main up to EnableInterrupts: the first conversion seeds the three filters,
\* all with the same depth (64 in main.c; size here)
main(Raw_A17, Raw_A14, Raw_A16, size) ==
    /\ pc = "reset"
    /\ LET f1 == LPF_Init(LPFState, Raw_A17, size)
           f2 == LPF_Init2(f1, Raw_A14, size)
           f3 == LPF_Init3(f2, Raw_A16, size)
       IN SetLPF(f3)
    /\ Duty_Cycle_Left' = PWM_NOMINAL
    /\ Duty_Cycle_Right' = PWM_NOMINAL
    /\ Motor' = [cmd |-> "Init", left |-> 0, right |-> 0]
    /\ depth' = <<size, size, size>>
    /\ win' = <<Seeded(Raw_A17, size), Seeded(Raw_A14, size), Seeded(Raw_A16, size)>>
    /\ cnt' = <<0, 0, 0>>
    /\ pc' = "armed"
    /\ UNCHANGED << distVars, Error, Kp, Set_Point, ret, uniform, ops >>
    /\ UNCHANGED hwVars

\* Sample_Analog_Distance_Sensor with A17 filtered into the left distance and
\* A16 into the right
Sample_Analog_Distance_Sensor_Permuted(Raw_A17, Raw_A14, Raw_A16) ==
    /\ pc = "armed"
    /\ LET f1 == LPF_Calc(LPFState, Raw_A17)
           f2 == LPF_Calc2(f1, Raw_A14)
           f3 == LPF_Calc3(f2, Raw_A16)
       IN /\ SetLPF(f3)
          /\ Filtered_Distance_Left' = f1.y
          /\ Filtered_Distance_Center' = f2.y
          /\ Filtered_Distance_Right' = f3.y
          /\ Converted_Distance_Left' = Analog_Distance_Sensor_Calibrate(f1.y)
          /\ Converted_Distance_Center' = Analog_Distance_Sensor_Calibrate(f2.y)
          /\ Converted_Distance_Right' = Analog_Distance_Sensor_Calibrate(f3.y)
          /\ ret' = <<f1.y, f2.y, f3.y>>
    /\ win' = <<Shift(win[1], Raw_A17), Shift(win[2], Raw_A14), Shift(win[3], Raw_A16)>>
    /\ cnt' = [k \in 1..3 |-> Count(cnt[k], depth[k])]
    /\ UNCHANGED << ctlVars, depth, uniform, ops, pc >>
    /\ UNCHANGED hwVars

\* Timer_A1_Periodic_Task: one conversion, three filters, three calibrations
Sample_Analog_Distance_Sensor(Raw_A17, Raw_A14, Raw_A16) ==
    /\ pc = "armed"
    /\ LET f1 == LPF_Calc(LPFState, Raw_A17)
           f2 == LPF_Calc2(f1, Raw_A14)
           f3 == LPF_Calc3(f2, Raw_A16)
       IN /\ SetLPF(f3)
          /\ Filtered_Distance_Right' = f1.y
          /\ Filtered_Distance_Center' = f2.y
          /\ Filtered_Distance_Left' = f3.y
          /\ Converted_Distance_Left' = Analog_Distance_Sensor_Calibrate(f3.y)
          /\ Converted_Distance_Center' = Analog_Distance_Sensor_Calibrate(f2.y)
          /\ Converted_Distance_Right' = Analog_Distance_Sensor_Calibrate(f1.y)
          /\ ret' = <<f1.y, f2.y, f3.y>>
    /\ win' = <<Shift(win[1], Raw_A17), Shift(win[2], Raw_A14), Shift(win[3], Raw_A16)>>
    /\ cnt' = [k \in 1..3 |-> Count(cnt[k], depth[k])]
    /\ UNCHANGED << ctlVars, depth, uniform, ops, pc >>
    /\ UNCHANGED hwVars

InitSample == Reset

NextSample ==
    \/ \E a \in RawSet, b \in RawSet, c \in RawSet, n \in FilterDepths : main(a, b, c, n)
    \/ \E a \in RawSet, b \in RawSet, c \in RawSet : Sample_Analog_Distance_Sensor(a, b, c)

SpecSample == InitSample /\ [][NextSample]_vars

----------------------------------------------------------------------------
(* The filters under the sampling task *)

Filters == 1..3
Buf(k) == <<x, x2, x3>>[k]
Index(k) == <<I1, Pt2, Pt3>>[k]
Sum(k) == <<LPFSum, LPFSum2, LPFSum3>>[k]

AllEqual(w, v) == \A i \in DOMAIN w : w[i] = v

\* C2: once the filters are initialised, each running sum is the sum of the
\* Size values held in x[0..Size-1] of its buffer and each index is within
\* 0..Size-1
C2_SumAndIndex ==
    pc = "armed" =>
        \A k \in Filters :
            /\ Sum(k) = SumCells(Buf(k), Size)
            /\ Index(k) \in 0..(Size - 1)

\* after more than Size updates of mixed samples the first filter's index has
\* wrapped from 0 to Size-1 and the second filter's pointer is back at &x2[0]
C2_Witness ==
    /\ pc = "armed"
    /\ cnt[1] > depth[1] /\ I1 = Size - 1 /\ LPFSum = 6001
    /\ cnt[2] > depth[2] /\ Pt2 = 0 /\ LPFSum2 = 2 * 6001

\* C3: each return is the truncated mean of the filter's last N inputs (padded
\* with the seed), and the buffer holds exactly those N values, the newest at
\* the index and older ones after it, wrapping: every update overwrote the
\* oldest slot
C3_TruncatedMean ==
    pc = "armed" =>
        \A k \in Filters :
            /\ cnt[k] >= 1 => ret[k] = SumSeq(win[k]) \div depth[k]
            /\ \A j \in 0..(depth[k] - 1) :
                   Cell(Buf(k), (Index(k) + j) % depth[k]) = win[k][depth[k] - j]

\* a return that truncates: 12002 / 3 = 4000 remainder 2
C3_Witness ==
    /\ pc = "armed" /\ depth[1] = 3 /\ cnt[1] > 3
    /\ win[1] = <<6001, 0, 6001>>
    /\ Filtered_Distance_Right = 4000

\* C4: while every sample given to a filter equals its seed S, every return is S
C4_ConstantInput ==
    pc = "armed" =>
        \A k \in Filters :
            (cnt[k] \in 1..depth[k] /\ AllEqual(win[k], win[k][1])) => ret[k] = win[k][1]

\* init(6001, 3) and three updates with 6001
C4_Witness ==
    /\ pc = "armed" /\ depth[3] = 3 /\ cnt[3] = 3
    /\ win[3] = <<6001, 6001, 6001>>
    /\ Filtered_Distance_Left = 6001

\* the window after seed 0 and c updates, all with the same v > 0
IsStep(w, c) ==
    /\ c \in 1..Len(w)
    /\ w[Len(w)] > 0
    /\ \A i \in DOMAIN w : w[i] = IF i <= Len(w) - c THEN 0 ELSE w[Len(w)]

\* C5: over a step input (seed 0, then updates all with the same V > 0) no
\* return is below the one before it, and the N-th return is V
C5_StepResponse ==
    [][\A k \in Filters :
          (pc' = "armed" /\ IsStep(win'[k], cnt'[k])) =>
              /\ cnt'[k] >= 2 => ret'[k] >= ret[k]
              /\ cnt'[k] = depth'[k] => ret'[k] = win'[k][depth'[k]]]_vars

\* the third of three updates with 6001 after init(0, 3)
C5_Witness ==
    /\ pc = "armed" /\ depth[2] = 3 /\ cnt[2] = 3
    /\ IsStep(win[2], 3)
    /\ Filtered_Distance_Center = 6001

BufMin(k) == SeqMin([i \in 1..Size |-> Cell(Buf(k), i - 1)])
BufMax(k) == SeqMax([i \in 1..Size |-> Cell(Buf(k), i - 1)])

\* C6: each return lies between the least and the greatest of the Size values
\* in the filter's buffer
C6_Bounded ==
    pc = "armed" =>
        \A k \in Filters : cnt[k] >= 1 => (BufMin(k) <= ret[k] /\ ret[k] <= BufMax(k))

\* a return strictly between the least and the greatest sample of the window
C6_Witness ==
    /\ pc = "armed" /\ cnt[3] > depth[3]
    /\ BufMin(3) = 0 /\ BufMax(3) = 6001
    /\ Filtered_Distance_Left = 2000

----------------------------------------------------------------------------
(* LPF.h: the six filter functions called one by one, in any order and     *)
(* with any depths, each filter's Calc only after its own Init              *)

ApiSizes == 2..MaxDepth

\* whether a call of an Init with this size keeps all requested depths equal
StillUniform(size) == uniform /\ \A k \in Filters : depth[k] \in {0, size}

Call_LPF_Init(initial, size) ==
    /\ pc = "api" /\ ops < MaxOps
    /\ SetLPF(LPF_Init(LPFState, initial, size))
    /\ depth' = [depth EXCEPT ![1] = size]
    /\ win' = [win EXCEPT ![1] = Seeded(initial, size)]
    /\ cnt' = [cnt EXCEPT ![1] = 0]
    /\ uniform' = StillUniform(size)
    /\ ops' = ops + 1
    /\ UNCHANGED << distVars, ctlVars, ret, pc >>
    /\ UNCHANGED hwVars

Call_LPF_Init2(initial, size) ==
    /\ pc = "api" /\ ops < MaxOps
    /\ SetLPF(LPF_Init2(LPFState, initial, size))
    /\ depth' = [depth EXCEPT ![2] = size]
    /\ win' = [win EXCEPT ![2] = Seeded(initial, size)]
    /\ cnt' = [cnt EXCEPT ![2] = 0]
    /\ uniform' = StillUniform(size)
    /\ ops' = ops + 1
    /\ UNCHANGED << distVars, ctlVars, ret, pc >>
    /\ UNCHANGED hwVars

Call_LPF_Init3(initial, size) ==
    /\ pc = "api" /\ ops < MaxOps
    /\ SetLPF(LPF_Init3(LPFState, initial, size))
    /\ depth' = [depth EXCEPT ![3] = size]
    /\ win' = [win EXCEPT ![3] = Seeded(initial, size)]
    /\ cnt' = [cnt EXCEPT ![3] = 0]
    /\ uniform' = StillUniform(size)
    /\ ops' = ops + 1
    /\ UNCHANGED << distVars, ctlVars, ret, pc >>
    /\ UNCHANGED hwVars

Returned(k, f, newdata) ==
    /\ SetLPF(f)
    /\ ret' = [ret EXCEPT ![k] = f.y]
    /\ win' = [win EXCEPT ![k] = Shift(win[k], newdata)]
    /\ cnt' = [cnt EXCEPT ![k] = Count(cnt[k], depth[k])]
    /\ ops' = ops + 1
    /\ UNCHANGED << distVars, ctlVars, depth, uniform, pc >>
    /\ UNCHANGED hwVars

Call_LPF_Calc(newdata) ==
    /\ pc = "api" /\ ops < MaxOps /\ depth[1] # 0
    /\ Returned(1, LPF_Calc(LPFState, newdata), newdata)

Call_LPF_Calc2(newdata) ==
    /\ pc = "api" /\ ops < MaxOps /\ depth[2] # 0
    /\ Returned(2, LPF_Calc2(LPFState, newdata), newdata)

Call_LPF_Calc3(newdata) ==
    /\ pc = "api" /\ ops < MaxOps /\ depth[3] # 0
    /\ Returned(3, LPF_Calc3(LPFState, newdata), newdata)

InitApi == Globals0 /\ pc = "api"

NextApi ==
    \/ \E v \in RawSet, n \in ApiSizes : Call_LPF_Init(v, n)
    \/ \E v \in RawSet, n \in ApiSizes : Call_LPF_Init2(v, n)
    \/ \E v \in RawSet, n \in ApiSizes : Call_LPF_Init3(v, n)
    \/ \E v \in RawSet : Call_LPF_Calc(v)
    \/ \E v \in RawSet : Call_LPF_Calc2(v)
    \/ \E v \in RawSet : Call_LPF_Calc3(v)

SpecApi == InitApi /\ [][NextApi]_vars

\* the value filter k returns by its own seed, depth and samples alone
OwnMean(k) == SumSeq(win[k]) \div depth[k]

\* C7 as claimed: whatever the other filters were initialised with, each
\* filter's return is decided by its own seed, depth and samples
C7_Independent ==
    pc = "api" => \A k \in Filters : cnt[k] >= 1 => ret[k] = OwnMean(k)

\* C7 as amended: as long as every Init so far was called with one and the
\* same depth (2..512), each filter's return is decided by its own seed and
\* samples
C7_IndependentSameDepth ==
    (pc = "api" /\ uniform /\ \A k \in Filters : depth[k] <= LPF23_MAX) =>
        \A k \in Filters : cnt[k] >= 1 => ret[k] = OwnMean(k)

\* two filters of one depth with different seeds, each having returned its own mean
C7_Witness ==
    /\ pc = "api" /\ uniform
    /\ depth[1] = 2 /\ depth[2] = 2
    /\ win[1] = <<6001, 0>> /\ win[2] = <<0, 6001>>
    /\ cnt[1] = 1 /\ cnt[2] = 1
    /\ ret[1] = 3000 /\ ret[2] = 3000
    /\ x = (0 :> 0 @@ 1 :> 6001)

----------------------------------------------------------------------------
(* Analog_Distance_Sensor_Calibrate applied to every 14-bit filter output *)

InitCal ==
    /\ LPF0 /\ Converted0 /\ Ctl0 /\ Calls0 /\ HW0
    /\ Filtered_Distance_Left \in 0..ADC_MAX
    /\ Filtered_Distance_Center = 0 /\ Filtered_Distance_Right = 0
    /\ pc = "filtered"

\* Converted_Distance_Left = Analog_Distance_Sensor_Calibrate(Filtered_Distance_Left);
Calibrate_Left ==
    /\ pc = "filtered"
    /\ Converted_Distance_Left' = Analog_Distance_Sensor_Calibrate(Filtered_Distance_Left)
    /\ pc' = "calibrated"
    /\ UNCHANGED << lpfVars, Filtered_Distance_Left, Filtered_Distance_Center,
                    Filtered_Distance_Right, Converted_Distance_Center,
                    Converted_Distance_Right, ctlVars, callVars >>
    /\ UNCHANGED hwVars

NextCal == Calibrate_Left

SpecCal == InitCal /\ [][NextCal]_vars

\* C8: the calibration of a reading below 2552 is 800, that of a reading of
\* 2552 or more is 1195159 / (reading - 1058) + 40, truncated; so 2551 gives
\* 800 and 2552 gives 839; the result is decided by the reading alone
C8_Calibrate ==
    pc = "calibrated" =>
        /\ Filtered_Distance_Left < 2552 => Converted_Distance_Left = 800
        /\ Filtered_Distance_Left >= 2552 =>
               Converted_Distance_Left = (1195159 \div (Filtered_Distance_Left - 1058)) + 40
        /\ Filtered_Distance_Left = 2551 => Converted_Distance_Left = 800
        /\ Filtered_Distance_Left = 2552 => Converted_Distance_Left = 839

\* the first reading calibrated by the formula
C8_Witness ==
    /\ pc = "calibrated"
    /\ Filtered_Distance_Left = 2552
    /\ Converted_Distance_Left = 839

\* C9: every calibrated distance is the sentinel 800 or a distance within
\* the sensor's 100..800 mm
C9_InRange ==
    pc = "calibrated" => Converted_Distance_Left \in 100..800

----------------------------------------------------------------------------
(* Maze_Program/main.c: the proportional controllers *)

\* Motor.c, by the command and the duty cycles it is given
Motor_Forward(left_duty_cycle, right_duty_cycle) ==
    [cmd |-> "Forward", left |-> left_duty_cycle, right |-> right_duty_cycle]
Motor_Backward(left_duty_cycle, right_duty_cycle) ==
    [cmd |-> "Backward", left |-> left_duty_cycle, right |-> right_duty_cycle]
Motor_Left(left_duty_cycle, right_duty_cycle) ==
    [cmd |-> "Left", left |-> left_duty_cycle, right |-> right_duty_cycle]
Motor_Right(left_duty_cycle, right_duty_cycle) ==
    [cmd |-> "Right", left |-> left_duty_cycle, right |-> right_duty_cycle]
Motor_Stop == [cmd |-> "Stop", left |-> 0, right |-> 0]

\* the set point: the average of left and right if both exceed the desired
\* distance, else the desired distance
\* the set point without the average: always the desired distance
SelectSetPoint_NoAverage(left, right) == DESIRED_DISTANCE

SelectSetPoint_Inclusive(left, right) ==
    IF (left >= DESIRED_DISTANCE) /\ (right >= DESIRED_DISTANCE)
    THEN CDiv(left + right, 2)
    ELSE DESIRED_DISTANCE

SelectSetPoint(left, right) ==
    IF (left > DESIRED_DISTANCE) /\ (right > DESIRED_DISTANCE)
    THEN CDiv(left + right, 2)
    ELSE DESIRED_DISTANCE

\* the error as half the difference of the two sides
ComputeError_Symmetric(left, right, set_point) == CDiv(left - right, 2)

ComputeError(left, right, set_point) ==
    IF left < right THEN left - set_point ELSE set_point - right

\* Clamp without the test against PWM_MAX
Clamp_NoMax(duty) ==
    IF duty < PWM_MIN THEN PWM_MIN ELSE duty

\* if (Duty < PWM_MIN) Duty = PWM_MIN; if (Duty > PWM_MAX) Duty = PWM_MAX;
Clamp(duty) ==
    LET d == IF duty < PWM_MIN THEN PWM_MIN ELSE duty
    IN IF d > PWM_MAX THEN PWM_MAX ELSE d

\* what a tick stores, for the sign with which Kp * Error enters the right duty
\* (the command follows in each controller)
Stores(sign) ==
    LET sp == SelectSetPoint(Converted_Distance_Left, Converted_Distance_Right)
        e == ComputeError(Converted_Distance_Left, Converted_Distance_Right, sp)
        r == Clamp(U16(PWM_NOMINAL + sign * (Kp * e)))
        l == Clamp(U16(PWM_NOMINAL - sign * (Kp * e)))
    IN /\ Set_Point' = sp
       /\ Error' = e
       /\ Duty_Cycle_Right' = r
       /\ Duty_Cycle_Left' = l
       /\ UNCHANGED << lpfVars, distVars, Kp, callVars >>
       /\ UNCHANGED hwVars

Command_1(center, l, r) == Motor_Forward(l, r)

Command_2(center, l, r) ==
    IF (center > DESIRED_DISTANCE) /\ (center < 800)
    THEN Motor_Forward(l, r)
    ELSE Motor_Stop

\* Command_3 without the branch that reverses
Command_3_NoReverse(center, l, r) ==
    IF (center >= DESIRED_DISTANCE) /\ (center < 800)
    THEN Motor_Forward(l, r)
    ELSE Motor_Stop

Command_3(center, l, r) ==
    IF (center >= DESIRED_DISTANCE) /\ (center < 800)
    THEN Motor_Forward(l, r)
    ELSE IF center < (DESIRED_DISTANCE - 50)
         THEN Motor_Backward(l, r)
         ELSE Motor_Stop

Controller_1 ==
    /\ pc = "sampled"
    /\ Stores(1)
    /\ Motor' = Command_1(Converted_Distance_Center, Duty_Cycle_Left', Duty_Cycle_Right')
    /\ pc' = "ticked"

Controller_2 ==
    /\ pc = "sampled"
    /\ Stores(-1)
    /\ Motor' = Command_2(Converted_Distance_Center, Duty_Cycle_Left', Duty_Cycle_Right')
    /\ pc' = "ticked"

Controller_3 ==
    /\ pc = "sampled"
    /\ Stores(-1)
    /\ Motor' = Command_3(Converted_Distance_Center, Duty_Cycle_Left', Duty_Cycle_Right')
    /\ pc' = "ticked"

\* distances the sampling task may have left in the shared variables
SideSet == {100, 117, 250, 251, 300, 500, 800, 839}
CenterSet == {150, 199, 200, 250, 260, 799, 800}
KpSet == {-4, 4, 100}

\* the sampling task's writes of the three distances, between two ticks
Sample_Write(left, center, right) ==
    /\ pc = "ticked"
    /\ Converted_Distance_Left' = left
    /\ Converted_Distance_Center' = center
    /\ Converted_Distance_Right' = right
    /\ pc' = "sampled"
    /\ UNCHANGED << lpfVars, Filtered_Distance_Left, Filtered_Distance_Center,
                    Filtered_Distance_Right, ctlVars, callVars >>
    /\ UNCHANGED hwVars

\* after main: the duties are PWM_NOMINAL, the distances the sampling task
\* has written, the gain any of KpSet
InitCtl ==
    /\ LPF0 /\ Filtered0 /\ Calls0 /\ HW0
    /\ Converted_Distance_Left \in SideSet
    /\ Converted_Distance_Center \in CenterSet
    /\ Converted_Distance_Right \in SideSet
    /\ Error = 0 /\ Kp \in KpSet /\ Set_Point = 250
    /\ Duty_Cycle_Left = PWM_NOMINAL /\ Duty_Cycle_Right = PWM_NOMINAL
    /\ Motor = [cmd |-> "Init", left |-> 0, right |-> 0]
    /\ pc = "sampled"

NextCtl ==
    \/ Controller_1
    \/ Controller_2
    \/ Controller_3
    \/ \E l \in SideSet, c \in CenterSet, r \in SideSet : Sample_Write(l, c, r)

SpecCtl == InitCtl /\ [][NextCtl]_vars

\* C1: after every tick both duties are within 1500..3500, and a drive
\* command was given exactly these two duties
C1_DutiesInRange ==
    pc = "ticked" =>
        /\ Duty_Cycle_Left \in 1500..3500
        /\ Duty_Cycle_Right \in 1500..3500
        /\ Motor.cmd \in {"Forward", "Backward"} =>
               (Motor.left = Duty_Cycle_Left /\ Motor.right = Duty_Cycle_Right)

\* a tick whose proportional term took both duties out of the range
C1_Witness ==
    /\ pc = "ticked"
    /\ Kp * Error > PWM_SWING
    /\ Duty_Cycle_Left = 3500 /\ Duty_Cycle_Right = 1500
    /\ Motor = [cmd |-> "Forward", left |-> 3500, right |-> 1500]

\* C10: after every tick the set point is (left + right) / 2 if left and
\* right both exceed 250, and 250 in every other case
C10_SetPoint ==
    pc = "ticked" =>
        Set_Point = IF Converted_Distance_Left > 250 /\ Converted_Distance_Right > 250
                    THEN (Converted_Distance_Left + Converted_Distance_Right) \div 2
                    ELSE 250

\* left = 500, right = 500 gives 500
C10_Witness ==
    /\ pc = "ticked"
    /\ Converted_Distance_Left = 500 /\ Converted_Distance_Right = 500
    /\ Set_Point = 500

\* C11: after every tick Error is left - Set_Point if left < right, and
\* Set_Point - right otherwise (left = right included); so left = 100,
\* right = 500 gives -150
C11_Error ==
    pc = "ticked" =>
        /\ Converted_Distance_Left < Converted_Distance_Right =>
               Error = Converted_Distance_Left - Set_Point
        /\ Converted_Distance_Left >= Converted_Distance_Right =>
               Error = Set_Point - Converted_Distance_Right
        /\ (Converted_Distance_Left = 100 /\ Converted_Distance_Right = 500) =>
               Error = -150

\* left = 100, right = 500 gives set point 250 and error -150
C11_Witness ==
    /\ pc = "ticked"
    /\ Converted_Distance_Left = 100 /\ Converted_Distance_Right = 500
    /\ Set_Point = 250 /\ Error = -150

\* C12: after every tick with the program's gain (Kp = 4), if the left wall
\* is nearer (left < right) the left duty is at least the right duty, and if
\* the right wall is nearer the right duty is at least the left duty
C12_SteersAway ==
    (pc = "ticked" /\ Kp = 4) =>
        /\ Converted_Distance_Left < Converted_Distance_Right =>
               Duty_Cycle_Left >= Duty_Cycle_Right
        /\ Converted_Distance_Right < Converted_Distance_Left =>
               Duty_Cycle_Right >= Duty_Cycle_Left

\* C13: every tick of Controller_3 gives one command, chosen from the center
\* distance alone: forward with the two duties if and only if center is above
\* 250 and below 800, backward if and only if center is below 200, stop in
\* every other case
C13_Actuation ==
    [][Controller_3 =>
          Motor' = IF Converted_Distance_Center > 250 /\ Converted_Distance_Center < 800
                   THEN Motor_Forward(Duty_Cycle_Left', Duty_Cycle_Right')
                   ELSE IF Converted_Distance_Center < 200
                        THEN Motor_Backward(Duty_Cycle_Left', Duty_Cycle_Right')
                        ELSE Motor_Stop]_vars

\* C14: a tick of Controller_3 with center below 200 commands backward with
\* the two duties, whatever left and right are
C14_CollisionOverride ==
    [][(Controller_3 /\ Converted_Distance_Center < DESIRED_DISTANCE - 50) =>
          Motor' = Motor_Backward(Duty_Cycle_Left', Duty_Cycle_Right')]_vars

\* center = 150 with the left wall at 100 and the right side open: backward
C14_Witness ==
    /\ pc = "ticked"
    /\ Converted_Distance_Center = 150
    /\ Converted_Distance_Left = 100 /\ Converted_Distance_Right = 800
    /\ Motor.cmd = "Backward"
    /\ Motor.left = Duty_Cycle_Left /\ Motor.right = Duty_Cycle_Right

\* C15: after a tick with left = right above 250 the set point is left, the
\* error 0 and both duties 2500; with center above 250 and below 800 the
\* command is forward(2500, 2500)
C15_Balanced ==
    (/\ pc = "ticked"
     /\ Converted_Distance_Left = Converted_Distance_Right
     /\ Converted_Distance_Left > DESIRED_DISTANCE) =>
        /\ Set_Point = Converted_Distance_Left
        /\ Error = 0
        /\ Duty_Cycle_Left = 2500 /\ Duty_Cycle_Right = 2500
        /\ (Converted_Distance_Center > DESIRED_DISTANCE /\ Converted_Distance_Center < 800) =>
               Motor = Motor_Forward(2500, 2500)

\* left = 300, center = 260, right = 300, Kp = 4
C15_Witness ==
    /\ pc = "ticked" /\ Kp = 4
    /\ Converted_Distance_Left = 300 /\ Converted_Distance_Center = 260
    /\ Converted_Distance_Right = 300
    /\ Set_Point = 300 /\ Error = 0
    /\ Motor = [cmd |-> "Forward", left |-> 2500, right |-> 2500]

\* C16: a tick of Controller_3 with center at the 800 sentinel commands
\* forward
C16_SentinelForward ==
    [][(Controller_3 /\ Converted_Distance_Center = 800) =>
          Motor'.cmd = "Forward"]_vars

----------------------------------------------------------------------------
(* The sampling task's channel mapping *)

\* the calibrated mean of the samples given to filter k so far
CalibratedMean(w, d) ==
    LET m == SumSeq(w) \div d
    IN IF m < 2552 THEN 800 ELSE (1195159 \div (m - 1058)) + 40

\* C17: every sampling invocation leaves in Converted_Distance_Right the
\* calibrated output of filter 1 (fed A17), in Converted_Distance_Center that
\* of filter 2 (fed A14) and in Converted_Distance_Left that of filter 3 (fed
\* A16), and moves each filter by exactly one slot
C17_ChannelMapping ==
    [][(pc = "armed" /\ pc' = "armed") =>
          /\ Converted_Distance_Right' = CalibratedMean(win'[1], depth'[1])
          /\ Converted_Distance_Center' = CalibratedMean(win'[2], depth'[2])
          /\ Converted_Distance_Left' = CalibratedMean(win'[3], depth'[3])
          /\ I1' = (I1 + Size - 1) % Size
          /\ Pt2' = (Pt2 + Size - 1) % Size
          /\ Pt3' = (Pt3 + Size - 1) % Size
          /\ \A k \in Filters :
                 Cardinality({i \in 0..(Size - 1) : Cell(Buf(k), i)' # Cell(Buf(k), i)}) <= 1]_vars

\* seeds (6001, 0, 0) and one sample (6001, 0, 6001) at depth 2: the right
\* distance is 281, the center 800 and the left 655
C17_Witness ==
    /\ pc = "armed" /\ depth[1] = 2 /\ cnt[1] = 1
    /\ win[1] = <<6001, 6001>> /\ win[2] = <<0, 0>> /\ win[3] = <<0, 6001>>
    /\ Converted_Distance_Right = 281
    /\ Converted_Distance_Center = 800
    /\ Converted_Distance_Left = 655

----------------------------------------------------------------------------
(* Maze/main.c: the decision-tree controller in the SysTick handler, the    *)
(* sampling task in the Timer A1 handler and the main loop, under the NVIC *)

SYSTICK_INT_PRIORITY == 2
MAZE_DESIRED_DISTANCE == 200

\* Timer_A1_Interrupt_Init writes 0x40 to bits 23..16 of NVIC->IP[2] as a
\* 32-bit word: priority 2 where IP is an array of words; where IP is an
\* array of bytes (CMSIS) the write leaves interrupt 10 at its reset priority 0
TA1_Priorities == {0, 2}

\* distances the sampling task may write
IrqCenterSet == {150, 200, 300}
IrqRightSet == {150, 200, 300}

\* exception numbers: SysTick is 15, interrupt 10 (Timer A1) is 16 + 10
Excnum(h) == IF h = "SysTick" THEN 15 ELSE 26
Prio(h) == IF h = "SysTick" THEN SYSTICK_INT_PRIORITY ELSE TA1_Priority
\* the priority the processor executes at: thread mode is below every handler
Current == IF active = <<>> THEN 256 ELSE Prio(active[Len(active)])
Precedes(g, h) ==
    \/ Prio(g) < Prio(h)
    \/ (Prio(g) = Prio(h) /\ Excnum(g) < Excnum(h))
\* the pending interrupt the processor takes next
Taken(h) ==
    /\ h \in pending
    /\ Prio(h) < Current
    /\ \A g \in pending \ {h} : ~Precedes(g, h)

\* Controller_1 of Maze/main.c with Turn_Left only for a center distance
\* below the desired distance
Maze_Controller_1_Below(center, right) ==
    IF (center > MAZE_DESIRED_DISTANCE) /\ (right < MAZE_DESIRED_DISTANCE)
    THEN Motor_Forward(3500, 3500)
    ELSE IF right > MAZE_DESIRED_DISTANCE
         THEN Motor_Right(2000, 2000)
         ELSE IF (center < MAZE_DESIRED_DISTANCE) /\ (right < MAZE_DESIRED_DISTANCE)
              THEN Motor_Left(3500, 3500)
              ELSE Motor_Stop

\* Controller_1 of Maze/main.c: the command it gives first (Turn_Left begins
\* with Motor_Left)
Maze_Controller_1(center, right) ==
    IF (center > MAZE_DESIRED_DISTANCE) /\ (right < MAZE_DESIRED_DISTANCE)
    THEN Motor_Forward(3500, 3500)
    ELSE IF right > MAZE_DESIRED_DISTANCE
         THEN Motor_Right(2000, 2000)
         ELSE IF (center <= MAZE_DESIRED_DISTANCE) /\ (right < MAZE_DESIRED_DISTANCE)
              THEN Motor_Left(3500, 3500)
              ELSE Motor_Stop

\* one Timer A1 period elapses: Timer A1 requests its interrupt, SysTick
\* every SysTickPeriod-th time; a Clock_Delay1ms in progress advances. The
\* handlers' other code takes far less than a period
Timer_Fire ==
    /\ pc = "irq"
    /\ \A h \in pending : ~Taken(h)
    /\ active = <<>> \/ delay > 0
    /\ (active = <<>> /\ mainpc = "hold") => hold > 0
    /\ pending' = pending \cup {"TA1"} \cup
                      (IF SysTick_Count + 1 = SysTickPeriod THEN {"SysTick"} ELSE {})
    /\ SysTick_Count' = (SysTick_Count + 1) % SysTickPeriod
    /\ delay' = IF active # <<>> THEN delay - 1 ELSE delay
    /\ hold' = IF active = <<>> /\ mainpc = "hold" THEN hold - 1 ELSE hold
    /\ UNCHANGED << lpfVars, distVars, ctlVars, callVars, pc, adcVars,
                    TA1_Priority, active, mainpc, since, entered >>
    /\ UNCHANGED extVars

\* TA1_0_IRQHandler: Timer_A1_Periodic_Task samples and returns
TA1_0_IRQHandler(center, right) ==
    /\ pc = "irq"
    /\ Taken("TA1")
    /\ pending' = pending \ {"TA1"}
    /\ Converted_Distance_Center' = center
    /\ Converted_Distance_Right' = right
    /\ since' = 1
    /\ UNCHANGED << lpfVars, Filtered_Distance_Left, Filtered_Distance_Center,
                    Filtered_Distance_Right, Converted_Distance_Left, ctlVars,
                    callVars, pc, adcVars, TA1_Priority, active, SysTick_Count,
                    delay, hold, mainpc, entered >>
    /\ UNCHANGED extVars

\* SysTick_Handler: Controller_1 up to its return or, in Turn_Left, up to
\* Clock_Delay1ms(700)
Maze_SysTick_Handler ==
    /\ pc = "irq"
    /\ Taken("SysTick")
    /\ pending' = pending \ {"SysTick"}
    /\ Motor' = Maze_Controller_1(Converted_Distance_Center, Converted_Distance_Right)
    /\ IF Motor'.cmd = "Left"
       THEN active' = Append(active, "SysTick") /\ delay' = TurnLeftPeriods
       ELSE UNCHANGED << active, delay >>
    /\ since' = 0
    /\ entered' = TRUE
    /\ UNCHANGED << lpfVars, distVars, Error, Kp, Set_Point, Duty_Cycle_Left,
                    Duty_Cycle_Right, callVars, pc, adcVars, TA1_Priority,
                    SysTick_Count, hold, mainpc >>
    /\ UNCHANGED extVars

\* Turn_Left after its delay: Motor_Stop, then the handler returns
Turn_Left_Return ==
    /\ pc = "irq"
    /\ active # <<>> /\ delay = 0
    /\ Motor' = Motor_Stop
    /\ active' = SubSeq(active, 1, Len(active) - 1)
    /\ UNCHANGED << lpfVars, distVars, Error, Kp, Set_Point, Duty_Cycle_Left,
                    Duty_Cycle_Right, callVars, pc, adcVars, TA1_Priority, pending,
                    SysTick_Count, delay, hold, mainpc, since, entered >>
    /\ UNCHANGED extVars

\* the main loop reads a red marker: Handle_Red up to Clock_Delay1ms(5000)
Handle_Red ==
    /\ pc = "irq"
    /\ active = <<>> /\ mainpc = "loop"
    /\ \A h \in pending : ~Taken(h)
    /\ Motor' = Motor_Stop
    /\ hold' = HoldPeriods
    /\ mainpc' = "hold"
    /\ UNCHANGED << lpfVars, distVars, Error, Kp, Set_Point, Duty_Cycle_Left,
                    Duty_Cycle_Right, callVars, pc, adcVars, TA1_Priority, pending,
                    active, SysTick_Count, delay, since, entered >>
    /\ UNCHANGED extVars

\* Handle_Red returns to the main loop after its delay
Handle_Red_Return ==
    /\ pc = "irq"
    /\ active = <<>> /\ mainpc = "hold" /\ hold = 0
    /\ mainpc' = "loop"
    /\ UNCHANGED << lpfVars, distVars, ctlVars, callVars, pc, adcVars,
                    TA1_Priority, pending, active, SysTick_Count, delay, hold,
                    since, entered >>
    /\ UNCHANGED extVars

\* after main's EnableInterrupts
InitIrq ==
    /\ LPF0 /\ Filtered0 /\ Converted0 /\ Ctl0 /\ Calls0 /\ Adc0 /\ Ext0
    /\ TA1_Priority \in TA1_Priorities
    /\ pending = {} /\ active = <<>> /\ SysTick_Count = 0
    /\ delay = 0 /\ hold = 0 /\ mainpc = "loop"
    /\ since = 0 /\ entered = FALSE
    /\ pc = "irq"

NextIrq ==
    \/ Timer_Fire
    \/ \E c \in IrqCenterSet, r \in IrqRightSet : TA1_0_IRQHandler(c, r)
    \/ Maze_SysTick_Handler
    \/ Turn_Left_Return
    \/ Handle_Red
    \/ Handle_Red_Return

SpecIrq == InitIrq /\ [][NextIrq]_vars

C20_StoppedWhileHeld ==
    mainpc = "hold" => Motor.cmd = "Stop"

----------------------------------------------------------------------------
(* Analog_Distance_Sensors.c: Analog_Distance_Sensor_Start_Conversion and  *)
(* the ADC14 flags it polls                                                *)

\* polls counted in one wait (the count stops there, the polling does not)
MaxPolls == 3

\* Sample_Analog_Distance_Sensor calls Analog_Distance_Sensor_Start_Conversion
Start_Conversion_Call ==
    /\ pc = "adc"
    /\ adcpc = "idle"
    /\ adcpc' = "wait_busy"
    /\ polls' = 0
    /\ UNCHANGED << lpfVars, distVars, ctlVars, callVars, pc, irqVars,
                    ADC14BUSY, ADC14IFG4, Ch >>
    /\ UNCHANGED extVars

\* while(ADC14->CTL0 & 0x00010000); then ADC14->CTL0 |= 0x00000001;
Poll_ADC14BUSY ==
    /\ pc = "adc"
    /\ adcpc = "wait_busy"
    /\ IF ADC14BUSY
       THEN /\ polls' = IF polls < MaxPolls THEN polls + 1 ELSE polls
            /\ UNCHANGED << adcpc, ADC14BUSY >>
       ELSE /\ ADC14BUSY' = TRUE
            /\ adcpc' = "wait_ifg"
            /\ polls' = 0
    /\ UNCHANGED << lpfVars, distVars, ctlVars, callVars, pc, irqVars,
                    ADC14IFG4, Ch >>
    /\ UNCHANGED extVars

\* while((ADC14->IFGR0 & 0x10) == 0); then the three MEM reads, the last of
\* which clears ADC14IFG4
Poll_ADC14IFG4(mem2, mem3, mem4) ==
    /\ pc = "adc"
    /\ adcpc = "wait_ifg"
    /\ IF ~ADC14IFG4
       THEN /\ polls' = IF polls < MaxPolls THEN polls + 1 ELSE polls
            /\ UNCHANGED << adcpc, ADC14IFG4, Ch >>
       ELSE /\ Ch' = <<mem2, mem3, mem4>>
            /\ ADC14IFG4' = FALSE
            /\ adcpc' = "idle"
            /\ polls' = 0
    /\ UNCHANGED << lpfVars, distVars, ctlVars, callVars, pc, irqVars, ADC14BUSY >>
    /\ UNCHANGED extVars

\* the converter finishes the sequence: BUSY clears, MEM4 is loaded
ADC14_Complete ==
    /\ pc = "adc"
    /\ ADC14BUSY
    /\ ADC14BUSY' = FALSE
    /\ ADC14IFG4' = TRUE
    /\ UNCHANGED << lpfVars, distVars, ctlVars, callVars, pc, irqVars,
                    adcpc, polls, Ch >>
    /\ UNCHANGED extVars

\* the converter is idle or, from an earlier trigger, busy
InitAdc ==
    /\ LPF0 /\ Filtered0 /\ Converted0 /\ Ctl0 /\ Calls0 /\ Irq0 /\ Ext0
    /\ ADC14BUSY \in BOOLEAN /\ ADC14IFG4 = FALSE
    /\ adcpc = "idle" /\ polls = 0 /\ Ch = <<0, 0, 0>>
    /\ pc = "adc"

Start_Conversion_Step ==
    \/ Start_Conversion_Call
    \/ Poll_ADC14BUSY
    \/ \E a \in RawSet, b \in RawSet, c \in RawSet : Poll_ADC14IFG4(a, b, c)

NextAdc ==
    \/ Start_Conversion_Call
    \/ Poll_ADC14BUSY
    \/ \E a \in RawSet, b \in RawSet, c \in RawSet : Poll_ADC14IFG4(a, b, c)
    \/ ADC14_Complete

\* the processor keeps executing the function; nothing obliges the converter
SpecAdc == InitAdc /\ [][NextAdc]_vars /\ WF_vars(Start_Conversion_Step)

\* C19: every call of Analog_Distance_Sensor_Start_Conversion returns, whether
\* or not the converter ever changes the flag it waits for
C19_WaitTerminates ==
    (adcpc = "wait_busy") ~> (adcpc = "idle")

----------------------------------------------------------------------------
(* LPF.c: the filter functions called with any requested depth: 0, 1, the  *)
(* maxima and beyond                                                       *)

\* uint32_t x[1024], x2[1024], x3[1024]
LPF_BUFFER == 1024

DepthSizes == {0, 1, 2, 512, 513, 1024, 1025}

InBuffer(i) == i \in 0..(LPF_BUFFER - 1)

\* the cell LPF_Calc reads and writes: x[I1] after the wrap or decrement
LPF_Calc_Index(f) == IF f.I1 = 0 THEN f.Size - 1 ELSE f.I1 - 1
\* the cells LPF_Calc2 and LPF_Calc3 write: *Pt and *(Pt+Size)
LPF_Calc2_Index(f) == IF f.Pt2 = 0 THEN f.Size - 1 ELSE f.Pt2 - 1
LPF_Calc3_Index(f) == IF f.Pt3 = 0 THEN f.Size - 1 ELSE f.Pt3 - 1

\* the call leaves its buffer or divides by Size = 0
LPF_Calc_Faults(f) ==
    \/ ~InBuffer(LPF_Calc_Index(f))
    \/ f.Size = 0
LPF_Calc2_Faults(f) ==
    \/ ~InBuffer(LPF_Calc2_Index(f))
    \/ ~InBuffer(LPF_Calc2_Index(f) + f.Size)
    \/ f.Size = 0
LPF_Calc3_Faults(f) ==
    \/ ~InBuffer(LPF_Calc3_Index(f))
    \/ ~InBuffer(LPF_Calc3_Index(f) + f.Size)
    \/ f.Size = 0

\* bookkeeping here: depth[k] is the size last requested for filter k, cnt[k]
\* is 1 once filter k is initialised and 2 once it has returned a value,
\* win[k] holds the last sample given to it
Inited(k, size) ==
    /\ depth' = [depth EXCEPT ![k] = size]
    /\ cnt' = [cnt EXCEPT ![k] = 1]
    /\ ops' = ops + 1
    /\ UNCHANGED << distVars, ctlVars, win, ret, uniform, pc, hwVars >>

Depth_LPF_Init(initial, size) ==
    /\ pc = "depth" /\ ops < MaxDepthOps
    /\ SetLPF(LPF_Init(LPFState, initial, size))
    /\ Inited(1, size)

Depth_LPF_Init2(initial, size) ==
    /\ pc = "depth" /\ ops < MaxDepthOps
    /\ SetLPF(LPF_Init2(LPFState, initial, size))
    /\ Inited(2, size)

Depth_LPF_Init3(initial, size) ==
    /\ pc = "depth" /\ ops < MaxDepthOps
    /\ SetLPF(LPF_Init3(LPFState, initial, size))
    /\ Inited(3, size)

\* a Calc that stays in its buffer and divides by a nonzero Size returns
Calced(k, f, newdata) ==
    /\ SetLPF(f)
    /\ ret' = [ret EXCEPT ![k] = f.y]
    /\ win' = [win EXCEPT ![k] = <<newdata>>]
    /\ cnt' = [cnt EXCEPT ![k] = 2]
    /\ ops' = ops + 1
    /\ UNCHANGED << distVars, ctlVars, depth, uniform, pc, hwVars >>

\* one that does not has no defined outcome: the run is followed no further
Faulted ==
    /\ pc' = "fault"
    /\ UNCHANGED << lpfVars, distVars, ctlVars, callVars, hwVars >>

Depth_LPF_Calc(newdata) ==
    /\ pc = "depth" /\ ops < MaxDepthOps /\ cnt[1] >= 1
    /\ IF LPF_Calc_Faults(LPFState)
       THEN Faulted
       ELSE Calced(1, LPF_Calc(LPFState, newdata), newdata)

Depth_LPF_Calc2(newdata) ==
    /\ pc = "depth" /\ ops < MaxDepthOps /\ cnt[2] >= 1
    /\ IF LPF_Calc2_Faults(LPFState)
       THEN Faulted
       ELSE Calced(2, LPF_Calc2(LPFState, newdata), newdata)

Depth_LPF_Calc3(newdata) ==
    /\ pc = "depth" /\ ops < MaxDepthOps /\ cnt[3] >= 1
    /\ IF LPF_Calc3_Faults(LPFState)
       THEN Faulted
       ELSE Calced(3, LPF_Calc3(LPFState, newdata), newdata)

InitDepth == Globals0 /\ pc = "depth"

NextDepth ==
    \/ \E n \in DepthSizes : Depth_LPF_Init(0, n)
    \/ \E n \in DepthSizes : Depth_LPF_Init2(0, n)
    \/ \E n \in DepthSizes : Depth_LPF_Init3(0, n)
    \/ \E v \in RawSet : Depth_LPF_Calc(v)
    \/ \E v \in RawSet : Depth_LPF_Calc2(v)
    \/ \E v \in RawSet : Depth_LPF_Calc3(v)

SpecDepth == InitDepth /\ [][NextDepth]_vars

\* C21: each of LPF_Init, LPF_Init2 and LPF_Init3 leaves the depth at 512
\* when more than 512 is requested, at the requested size when that is in
\* 2..512, and never above 512
C21_ClampedAt512 ==
    [][\A n \in DepthSizes :
          (Depth_LPF_Init(0, n) \/ Depth_LPF_Init2(0, n) \/ Depth_LPF_Init3(0, n)) =>
              /\ n > 512 => Size' = 512
              /\ n \in 2..512 => Size' = n
              /\ Size' <= 512]_vars

\* C22: whatever depths were requested, no Calc divides by zero or leaves its
\* buffer, and a filter of depth 1 returns the sample it was given
C22_NoFault ==
    /\ pc # "fault"
    /\ pc = "depth" =>
           \A k \in Filters : (cnt[k] = 2 /\ Size = 1) => ret[k] = win[k][1]

----------------------------------------------------------------------------
(* LPF.c: isqrt and its caller Noise *)

\* uint32_t values as the int32_t with the same bits, by 16-bit halves
Lo16(v) == v % 65536
Hi16(v) == ((v - Lo16(v)) \div 65536) % 65536
Word(h, l) == (IF h >= 32768 THEN h - 65536 ELSE h) * 65536 + l

\* a + b in uint32_t
Add32(a, b) ==
    LET l == Lo16(a) + Lo16(b)
        h == Hi16(a) + Hi16(b) + (l \div 65536)
    IN Word(h % 65536, l % 65536)

\* t * t in uint32_t, for t below 2^31
Square32(t) ==
    LET a == Hi16(t)
        b == Lo16(t)
        c == b \div 256
        d == b % 256
        low == (2 * c * d * 256) + (d * d)
        bh == (c * c) + (low \div 65536)
        h == (bh + 2 * ((a * b) % 32768)) % 65536
    IN Word(h, low % 65536)

\* a / n in uint32_t, for n in 1..2^31-1
Div32(a, n) == IF n = 1 THEN a ELSE UDiv(a, n)

\* t = ((t*t+s)/t)/2;
isqrt_Step(t, s) == Div32(Div32(Add32(Square32(t), s), t), 2)

\* sum/(Size-1) in Noise: the energy of x[0..Size-1] about its mean
Noise_Energy(buf, size) ==
    LET mean == SumCells(buf, size) \div size
        sq == [i \in 1..size |-> (Cell(buf, i - 1) - mean) * (Cell(buf, i - 1) - mean)]
    IN SumSeq(sq) \div (size - 1)

SqrtInputs == (0..40) \cup {99, 120, 655309, 655310, 1000000, 2621432, 1000000000,
                            INT_MAX, -1}
SqrtSizes == 1..MaxDepth

\* LPF_Init(initial, size): the buffer Noise works on
Sqrt_LPF_Init(initial, size) ==
    /\ pc = "sqrt_reset"
    /\ SetLPF(LPF_Init(LPFState, initial, size))
    /\ pc' = "sqrt_idle"
    /\ UNCHANGED << distVars, ctlVars, callVars, irqVars, adcVars, exSqrt, sqrtVars >>

\* uint32_t isqrt(uint32_t s): t = s/10+1; n = 16
isqrt_Call(s) ==
    /\ pc = "sqrt_idle"
    /\ isqrt_s' = s
    /\ isqrt_t' = Div32(s, 10) + 1
    /\ isqrt_n' = 16
    /\ pc' = "isqrt_loop"
    /\ UNCHANGED << lpfVars, distVars, ctlVars, callVars, irqVars, adcVars, exSqrt >>

\* Noise on the buffer as LPF_Init left it: 0 if Size < 2, else
\* isqrt(sum/(Size-1))
Noise ==
    /\ pc = "sqrt_idle"
    /\ IF Size < 2
       THEN /\ isqrt_t' = 0
            /\ pc' = "isqrt_done"
            /\ UNCHANGED << isqrt_s, isqrt_n >>
       ELSE /\ isqrt_s' = Noise_Energy(x, Size)
            /\ isqrt_t' = Div32(Noise_Energy(x, Size), 10) + 1
            /\ isqrt_n' = 16
            /\ pc' = "isqrt_loop"
    /\ UNCHANGED << lpfVars, distVars, ctlVars, callVars, irqVars, adcVars, exSqrt >>

\* one pass of for(n = 16; n; --n); a division by t = 0 has no defined outcome
isqrt_Iterate ==
    /\ pc = "isqrt_loop"
    /\ isqrt_n # 0
    /\ IF isqrt_t = 0
       THEN /\ pc' = "isqrt_fault"
            /\ UNCHANGED << isqrt_t, isqrt_n >>
       ELSE /\ isqrt_t' = isqrt_Step(isqrt_t, isqrt_s)
            /\ isqrt_n' = isqrt_n - 1
            /\ pc' = pc
    /\ UNCHANGED << lpfVars, distVars, ctlVars, callVars, irqVars, adcVars, exSqrt, isqrt_s >>

\* return t;
isqrt_Return ==
    /\ pc = "isqrt_loop"
    /\ isqrt_n = 0
    /\ pc' = "isqrt_done"
    /\ UNCHANGED << lpfVars, distVars, ctlVars, callVars, irqVars, adcVars, exSqrt, sqrtVars >>

InitSqrt == Globals0 /\ pc = "sqrt_reset"

NextSqrt ==
    \/ \E v \in RawSet, n \in SqrtSizes : Sqrt_LPF_Init(v, n)
    \/ \E s \in SqrtInputs : isqrt_Call(s)
    \/ Noise
    \/ isqrt_Iterate
    \/ isqrt_Return

SpecSqrt == InitSqrt /\ [][NextSqrt]_vars

\* whether t is floor(sqrt(s)) - 1, floor(sqrt(s)) or floor(sqrt(s)) + 1,
\* for s in uint32_t: (t-1)^2 <= s < (t+2)^2
WithinOne(t, s) ==
    /\ t <= 65536
    /\ t <= 1 \/ Div32(s, t - 1) < 0 \/ t - 1 <= Div32(s, t - 1)
    /\ t + 2 > Div32(s, t + 2)

\* C23: the value isqrt returns is within 1 of the integer square root of s
C23_WithinOne ==
    pc = "isqrt_done" => WithinOne(isqrt_t, isqrt_s)

\* C29: t is nonzero at the start of every iteration of isqrt, so that no
\* call, isqrt(0) from Noise on an all-equal buffer included, divides by zero
C29_NoDivideByZero ==
    /\ (pc = "isqrt_loop" /\ isqrt_n # 0) => isqrt_t # 0
    /\ pc # "isqrt_fault"

----------------------------------------------------------------------------
(* Maze_Program/main.c: OPT3101_GetMeasurement *)

BinFixMM_PER_PHASE_COUNT == 14990
BinFix == 16
\* number of OPT3101_GetMeasurement calls made one after the other
MaxOptOps == 2

\* register 0x08: FRAME_STATUS (bit 20), TX_CHANNEL (19:18), PHASE_OUT (15:0)
Reg08Set == {frame * 1048576 + ch * 262144 + phase :
                frame \in {0, 1}, ch \in 0..3, phase \in {43724, 43725}}
\* register 0x09: PHASE_OVER_FLOW_F2 and SIG_OVL_FLAG (19:18), AMP_OUT (15:0)
Reg09Set == {flags * 262144 + amp : flags \in 0..2, amp \in {149, 150}}

OPT3101_MeasurementError(r8, r9) ==
    \/ (r8 \div 1048576) % 2 = 0
    \/ (r9 \div 262144) % 4 # 0

OPT3101_GetTxChannel(r8) == (r8 \div 262144) % 4
OPT3101_GetAmplitude(r9) == r9 % 65536
OPT3101_GetPhase(r8) == r8 % 65536
OPT3101_GetDistanceMillimeters(r8) ==
    (OPT3101_GetPhase(r8) * BinFixMM_PER_PHASE_COUNT) \div (2 ^ BinFix)

\* the if / else if chain of OPT3101_GetMeasurement, amplitude tested first
OPT3101_Distance_AmplitudeFirst(r8, r9) ==
    IF OPT3101_GetAmplitude(r9) < 150 THEN 65534
    ELSE IF OPT3101_MeasurementError(r8, r9) THEN 65535
    ELSE IF OPT3101_GetDistanceMillimeters(r8) > 10000 THEN 65533
    ELSE OPT3101_GetDistanceMillimeters(r8)

\* the if / else if chain of OPT3101_GetMeasurement
OPT3101_Distance(r8, r9) ==
    IF OPT3101_MeasurementError(r8, r9) THEN 65535
    ELSE IF OPT3101_GetAmplitude(r9) < 150 THEN 65534
    ELSE IF OPT3101_GetDistanceMillimeters(r8) > 10000 THEN 65533
    ELSE OPT3101_GetDistanceMillimeters(r8)

\* the sensor raises DATA_RDY on P6.2
OPT3101_DataReady ==
    /\ pc = "opt"
    /\ ~P6IFG
    /\ P6IFG' = TRUE
    /\ UNCHANGED << reg08, reg09, distances, amplitudes, ChannelCount, channel >>
    /\ UNCHANGED << lpfVars, distVars, ctlVars, callVars, pc, irqVars, adcVars, exOpt >>

\* OPT3101_GetMeasurement(distances, amplitudes); r8 and r9 are what
\* OPT3101_ReadMeasurement reads from registers 0x08 and 0x09
OPT3101_GetMeasurement(r8, r9) ==
    /\ pc = "opt"
    /\ ops < MaxOptOps
    /\ reg08' = r8
    /\ reg09' = r9
    /\ P6IFG' = FALSE
    /\ LET ch == OPT3101_GetTxChannel(r8) IN
        /\ IF ch <= 2
           THEN /\ ChannelCount' = [ChannelCount EXCEPT ![ch + 1] = @ + 1]
                /\ distances' = [distances EXCEPT ![ch + 1] = OPT3101_Distance(r8, r9)]
                /\ amplitudes' = [amplitudes EXCEPT ![ch + 1] = OPT3101_GetAmplitude(r9)]
           ELSE UNCHANGED << ChannelCount, distances, amplitudes >>
        /\ channel' = ch
    /\ ops' = ops + 1
    /\ UNCHANGED << depth, win, cnt, ret, uniform >>
    /\ UNCHANGED << lpfVars, distVars, ctlVars, pc, irqVars, adcVars, exOpt >>

InitOpt == Globals0 /\ pc = "opt"

NextOpt ==
    \/ OPT3101_DataReady
    \/ \E r8 \in Reg08Set, r9 \in Reg09Set : OPT3101_GetMeasurement(r8, r9)

SpecOpt == InitOpt /\ [][NextOpt]_vars

\* C24: OPT3101_GetMeasurement stores for the reported channel 65535 on a
\* measurement error, else 65534 when the amplitude is below 150, else 65533
\* when the distance is above 10000, else the distance (at most 10000),
\* together with the amplitude; it stores only for channels 0..2 and leaves
\* the entries of the other channels as they were
C24_Sentinels ==
    [][\A r8 \in Reg08Set, r9 \in Reg09Set :
         OPT3101_GetMeasurement(r8, r9) =>
            LET ch == (reg08' \div 262144) % 4
                frameValid == (reg08' \div 1048576) % 2 = 1
                overflow == (reg09' \div 262144) % 4 \in 1..3
                amp == reg09' % 65536
                mm == ((reg08' % 65536) * 14990) \div 65536
            IN /\ ch \in 0..2 =>
                    /\ (~frameValid \/ overflow) => distances'[ch + 1] = 65535
                    /\ (frameValid /\ ~overflow /\ amp < 150) => distances'[ch + 1] = 65534
                    /\ (frameValid /\ ~overflow /\ amp >= 150 /\ mm > 10000)
                          => distances'[ch + 1] = 65533
                    /\ (frameValid /\ ~overflow /\ amp >= 150 /\ mm <= 10000)
                          => distances'[ch + 1] = mm
                    /\ distances'[ch + 1] \in (0..10000) \cup {65533, 65534, 65535}
                    /\ amplitudes'[ch + 1] = amp
               /\ \A c \in 0..2 : c # ch =>
                    /\ distances'[c + 1] = distances[c + 1]
                    /\ amplitudes'[c + 1] = amplitudes[c + 1]]_vars

\* two measurements stored: an error on channel 0 (low amplitude as well),
\* then a valid 10000 mm on channel 2; channel 1 untouched
C24_Witness ==
    /\ pc = "opt"
    /\ ops = 2
    /\ distances = <<65535, 0, 10000>>
    /\ amplitudes = <<149, 0, 150>>
    /\ channel = 2

----------------------------------------------------------------------------
(* Maze_Program/main.c: the clamping of the duties *)

\* C25: after every tick each duty is min(max(v, PWM_MIN), PWM_MAX), where v
\* is the integer PWM_NOMINAL + Kp * Error or PWM_NOMINAL - Kp * Error of
\* that controller; a v below PWM_MIN, negative included, gives PWM_MIN
C25_NearerBound ==
    [][LET Sat(v) == IF v < PWM_MIN THEN PWM_MIN ELSE IF v > PWM_MAX THEN PWM_MAX ELSE v
       IN /\ Controller_1 =>
               /\ Duty_Cycle_Right' = Sat(PWM_NOMINAL + Kp * Error')
               /\ Duty_Cycle_Left' = Sat(PWM_NOMINAL - Kp * Error')
          /\ (Controller_2 \/ Controller_3) =>
               /\ Duty_Cycle_Right' = Sat(PWM_NOMINAL - Kp * Error')
               /\ Duty_Cycle_Left' = Sat(PWM_NOMINAL + Kp * Error')]_vars

----------------------------------------------------------------------------
(* Maze/main.c: the decision tree of Controller_1 *)

\* C26: every tick gives exactly one of four commands, decided by the center
\* and right distances alone: Motor_Forward(3500,3500) iff center > 200 and
\* right < 200; Motor_Right(2000,2000) iff right > 200; Turn_Left (Motor_Left
\* and its delay in the handler) iff center <= 200 and right < 200;
\* Motor_Stop iff right = 200. Turn_Left ends with Motor_Stop, and stopped
\* motors are started by a tick only
C26_DecisionTree ==
    [][/\ Maze_SysTick_Handler =>
            LET c == Converted_Distance_Center
                r == Converted_Distance_Right
                turning == /\ Motor' = Motor_Left(3500, 3500)
                           /\ active' = Append(active, "SysTick")
                           /\ delay' > 0
            IN /\ (Motor' = Motor_Forward(3500, 3500)) <=> (c > 200 /\ r < 200)
               /\ (Motor' = Motor_Right(2000, 2000)) <=> (r > 200)
               /\ turning <=> (c <= 200 /\ r < 200)
               /\ (Motor' = Motor_Stop) <=> (r = 200)
               /\ Motor'.cmd \in {"Forward", "Right", "Left", "Stop"}
               /\ (Motor'.cmd # "Left") => active' = active
       /\ Turn_Left_Return => Motor' = Motor_Stop
       /\ (Motor.cmd = "Stop" /\ Motor' # Motor) => Maze_SysTick_Handler]_vars

\* a tick has found the wall ahead at exactly the desired distance and the
\* right wall nearer: Turn_Left is under way
C26_Witness ==
    /\ pc = "irq"
    /\ Converted_Distance_Center = 200
    /\ Converted_Distance_Right = 150
    /\ since = 0
    /\ Motor = Motor_Left(3500, 3500)
    /\ active # <<>> /\ delay = TurnLeftPeriods

----------------------------------------------------------------------------
(* Timer_A0_PWM.c and Motor.c on the registers of Timer A0, P3 and P5 *)

TIMER_A0_PERIOD_CONSTANT == 15000

\* bit k of v; v | mask and v & ~mask, bit by bit
Bit(v, k) == (v \div (2 ^ k)) % 2
SetBit(v, k) == IF Bit(v, k) = 1 THEN v ELSE v + 2 ^ k
ClearBit(v, k) == IF Bit(v, k) = 1 THEN v - 2 ^ k ELSE v
\* the masks of Motor.c and Timer_A0_PWM.c
Or_0xC0(v) == SetBit(SetBit(v, 6), 7)
AndNot_0xC0(v) == ClearBit(ClearBit(v, 6), 7)
Or_0x30(v) == SetBit(SetBit(v, 4), 5)
AndNot_0x30(v) == ClearBit(ClearBit(v, 4), 5)
Or_0x02F0(v) == SetBit(SetBit(SetBit(SetBit(SetBit(v, 4), 5), 6), 7), 9)

\* periods, duties and pin states in the calls
PeriodSet == {3000, TIMER_A0_PERIOD_CONSTANT}
DutySet == {0, 2000, 3000, 65535}
PortSet == {0, 255}

\* the compare register after Timer_A0_Update_Duty_Cycle, were a duty equal
\* to the period accepted
Timer_A0_Update_Duty_Cycle_Inclusive(duty_cycle, ccr0, ccr) ==
    IF duty_cycle > ccr0 THEN ccr ELSE duty_cycle

\* the compare register after Timer_A0_Update_Duty_Cycle_1 / _2
Timer_A0_Update_Duty_Cycle(duty_cycle, ccr0, ccr) ==
    IF duty_cycle >= ccr0 THEN ccr ELSE duty_cycle

\* the pins as the boot code or another driver left them
Port_Write(p3, p5) ==
    /\ pc = "pwm"
    /\ lastCall = <<"reset", FALSE>>
    /\ P3OUT' = p3
    /\ P5OUT' = p5
    /\ lastCall' = <<"Port_Write", FALSE>>
    /\ UNCHANGED << TA0CCR0, TA0CCR3, TA0CCR4, TA0CTL >>
    /\ UNCHANGED << lpfVars, distVars, ctlVars, callVars, pc, irqVars, adcVars, exPwm >>

\* Timer_A0_PWM_Init (the pin multiplexing of P2, EX0 and the output modes
\* are written once here and read by no function)
Timer_A0_PWM_Init(period_constant, duty_cycle_1, duty_cycle_2) ==
    /\ pc = "pwm"
    /\ IF duty_cycle_1 >= period_constant \/ duty_cycle_2 >= period_constant
       THEN UNCHANGED << TA0CCR0, TA0CCR3, TA0CCR4, TA0CTL >>
       ELSE /\ TA0CCR0' = period_constant
            /\ TA0CCR3' = duty_cycle_1
            /\ TA0CCR4' = duty_cycle_2
            /\ TA0CTL' = Or_0x02F0(TA0CTL)
    /\ lastCall' = <<"Timer_A0_PWM_Init",
                    duty_cycle_1 >= period_constant \/ duty_cycle_2 >= period_constant>>
    /\ UNCHANGED << P3OUT, P5OUT >>
    /\ UNCHANGED << lpfVars, distVars, ctlVars, callVars, pc, irqVars, adcVars, exPwm >>

Motor_Init ==
    /\ pc = "pwm"
    /\ P5OUT' = AndNot_0x30(P5OUT)
    /\ P3OUT' = AndNot_0xC0(P3OUT)
    /\ TA0CCR0' = TIMER_A0_PERIOD_CONSTANT
    /\ TA0CCR3' = 0
    /\ TA0CCR4' = 0
    /\ TA0CTL' = Or_0x02F0(TA0CTL)
    /\ lastCall' = <<"Motor_Init", FALSE>>
    /\ UNCHANGED << lpfVars, distVars, ctlVars, callVars, pc, irqVars, adcVars, exPwm >>

Timer_A0_Update_Duty_Cycle_1(duty_cycle_1) ==
    /\ pc = "pwm"
    /\ TA0CCR3' = Timer_A0_Update_Duty_Cycle(duty_cycle_1, TA0CCR0, TA0CCR3)
    /\ lastCall' = <<"Timer_A0_Update_Duty_Cycle_1", duty_cycle_1 >= TA0CCR0>>
    /\ UNCHANGED << TA0CCR0, TA0CCR4, TA0CTL, P3OUT, P5OUT >>
    /\ UNCHANGED << lpfVars, distVars, ctlVars, callVars, pc, irqVars, adcVars, exPwm >>

Timer_A0_Update_Duty_Cycle_2(duty_cycle_2) ==
    /\ pc = "pwm"
    /\ TA0CCR4' = Timer_A0_Update_Duty_Cycle(duty_cycle_2, TA0CCR0, TA0CCR4)
    /\ lastCall' = <<"Timer_A0_Update_Duty_Cycle_2", duty_cycle_2 >= TA0CCR0>>
    /\ UNCHANGED << TA0CCR0, TA0CCR3, TA0CTL, P3OUT, P5OUT >>
    /\ UNCHANGED << lpfVars, distVars, ctlVars, callVars, pc, irqVars, adcVars, exPwm >>

\* a driving function of Motor.c: the direction pins, the two duties, the
\* enable pins
Drive(name, p5, left_duty_cycle, right_duty_cycle) ==
    /\ pc = "pwm"
    /\ P5OUT' = p5
    /\ TA0CCR3' = Timer_A0_Update_Duty_Cycle(right_duty_cycle, TA0CCR0, TA0CCR3)
    /\ TA0CCR4' = Timer_A0_Update_Duty_Cycle(left_duty_cycle, TA0CCR0, TA0CCR4)
    /\ P3OUT' = Or_0xC0(P3OUT)
    /\ lastCall' = <<name, left_duty_cycle >= TA0CCR0 \/ right_duty_cycle >= TA0CCR0>>
    /\ UNCHANGED << TA0CCR0, TA0CTL >>
    /\ UNCHANGED << lpfVars, distVars, ctlVars, callVars, pc, irqVars, adcVars, exPwm >>

Call_Motor_Forward(l, r) == Drive("Motor_Forward", AndNot_0x30(P5OUT), l, r)
Call_Motor_Backward(l, r) == Drive("Motor_Backward", Or_0x30(P5OUT), l, r)
Call_Motor_Left(l, r) == Drive("Motor_Left", ClearBit(SetBit(P5OUT, 4), 5), l, r)
Call_Motor_Right(l, r) == Drive("Motor_Right", SetBit(ClearBit(P5OUT, 4), 5), l, r)

Call_Motor_Stop ==
    /\ pc = "pwm"
    /\ P3OUT' = AndNot_0xC0(P3OUT)
    /\ P5OUT' = AndNot_0x30(P5OUT)
    /\ TA0CCR3' = Timer_A0_Update_Duty_Cycle(0, TA0CCR0, TA0CCR3)
    /\ TA0CCR4' = Timer_A0_Update_Duty_Cycle(0, TA0CCR0, TA0CCR4)
    /\ lastCall' = <<"Motor_Stop", 0 >= TA0CCR0>>
    /\ UNCHANGED << TA0CCR0, TA0CTL >>
    /\ UNCHANGED << lpfVars, distVars, ctlVars, callVars, pc, irqVars, adcVars, exPwm >>

InitPwm == Globals0 /\ pc = "pwm"

NextPwm ==
    \/ \E p3 \in PortSet, p5 \in PortSet : Port_Write(p3, p5)
    \/ \E p \in PeriodSet, d1 \in DutySet, d2 \in DutySet : Timer_A0_PWM_Init(p, d1, d2)
    \/ Motor_Init
    \/ \E d \in DutySet : Timer_A0_Update_Duty_Cycle_1(d)
    \/ \E d \in DutySet : Timer_A0_Update_Duty_Cycle_2(d)
    \/ \E l \in DutySet, r \in DutySet : Call_Motor_Forward(l, r)
    \/ \E l \in DutySet, r \in DutySet : Call_Motor_Backward(l, r)
    \/ \E l \in DutySet, r \in DutySet : Call_Motor_Left(l, r)
    \/ \E l \in DutySet, r \in DutySet : Call_Motor_Right(l, r)
    \/ Call_Motor_Stop

SpecPwm == InitPwm /\ [][NextPwm]_vars

----------------------------------------------------------------------------
(* Maze_Program/main.c: Controller_3 in the SysTick handler and            *)
(* Sample_Analog_Distance_Sensor in the Timer A1 handler, statement by      *)
(* statement under the NVIC                                                 *)

\* Timer A1 periods in a behaviour
MaxTornPeriods == 3
\* distances the sampling task computes
TornSet == {150, 300}

Top == active[Len(active)]
Pop == SubSeq(active, 1, Len(active) - 1)
\* no pending interrupt is taken before the next statement
Runs(h) == active # <<>> /\ Top = h /\ \A g \in pending : ~Taken(g)

\* Timer A1 reaches CCR[0]: interrupt 10 is requested
Torn_TA1_Fire ==
    /\ pc = "torn"
    /\ periods < MaxTornPeriods
    /\ \A g \in pending : ~Taken(g)
    /\ "TA1" \notin pending
    /\ (active # <<>>) => Top # "TA1"
    /\ pending' = pending \cup {"TA1"}
    /\ periods' = periods + 1
    /\ UNCHANGED << fresh, samplepos, stamp, sidesStamp >>
    /\ UNCHANGED << lpfVars, distVars, ctlVars, callVars, pc, adcVars, exTorn,
                    TA1_Priority, active, SysTick_Count, delay, hold, mainpc,
                    since, entered >>

\* SysTick counts down to 0: its exception is requested
Torn_SysTick_Fire ==
    /\ pc = "torn"
    /\ \A g \in pending : ~Taken(g)
    /\ "SysTick" \notin pending
    /\ \A i \in 1..Len(active) : active[i] # "SysTick"
    /\ pending' = pending \cup {"SysTick"}
    /\ SysTick_Count' = 1 - SysTick_Count
    /\ UNCHANGED tornVars
    /\ UNCHANGED << lpfVars, distVars, ctlVars, callVars, pc, adcVars, exTorn,
                    TA1_Priority, active, delay, hold, mainpc, since, entered >>

\* TA1_0_IRQHandler is entered: Sample_Analog_Distance_Sensor up to its
\* store of Converted_Distance_Left
Torn_Sample_Left(left, center, right) ==
    /\ pc = "torn"
    /\ Taken("TA1")
    /\ pending' = pending \ {"TA1"}
    /\ active' = Append(active, "TA1")
    /\ fresh' = <<left, center, right>>
    /\ Converted_Distance_Left' = left
    /\ stamp' = [stamp EXCEPT ![1] = periods]
    /\ samplepos' = 1
    /\ since' = 1
    /\ UNCHANGED << periods, sidesStamp >>
    /\ UNCHANGED << lpfVars, Filtered_Distance_Left, Filtered_Distance_Center,
                    Filtered_Distance_Right, Converted_Distance_Center,
                    Converted_Distance_Right, ctlVars, callVars, pc, adcVars, exTorn,
                    TA1_Priority, SysTick_Count, delay, hold, mainpc, entered >>

\* the store of Converted_Distance_Center
Torn_Sample_Center ==
    /\ pc = "torn"
    /\ Runs("TA1") /\ samplepos = 1
    /\ Converted_Distance_Center' = fresh[2]
    /\ stamp' = [stamp EXCEPT ![2] = stamp[1]]
    /\ samplepos' = 2
    /\ UNCHANGED << fresh, periods, sidesStamp >>
    /\ UNCHANGED << lpfVars, Filtered_Distance_Left, Filtered_Distance_Center,
                    Filtered_Distance_Right, Converted_Distance_Left,
                    Converted_Distance_Right, ctlVars, callVars, pc, adcVars, exTorn,
                    irqVars >>

\* the store of Converted_Distance_Right; the handler returns
Torn_Sample_Right ==
    /\ pc = "torn"
    /\ Runs("TA1") /\ samplepos = 2
    /\ Converted_Distance_Right' = fresh[3]
    /\ stamp' = [stamp EXCEPT ![3] = stamp[1]]
    /\ samplepos' = 0
    /\ active' = Pop
    /\ UNCHANGED << fresh, periods, sidesStamp >>
    /\ UNCHANGED << lpfVars, Filtered_Distance_Left, Filtered_Distance_Center,
                    Filtered_Distance_Right, Converted_Distance_Left,
                    Converted_Distance_Center, ctlVars, callVars, pc, adcVars, exTorn,
                    TA1_Priority, pending, SysTick_Count, delay, hold, mainpc,
                    since, entered >>

\* SysTick_Handler is entered: Controller_3 up to the clamping of the duties
\* (it reads Converted_Distance_Left and Converted_Distance_Right)
Torn_Controller_3_Sides ==
    /\ pc = "torn"
    /\ Taken("SysTick")
    /\ pending' = pending \ {"SysTick"}
    /\ active' = Append(active, "SysTick")
    /\ LET sp == SelectSetPoint(Converted_Distance_Left, Converted_Distance_Right)
           e == ComputeError(Converted_Distance_Left, Converted_Distance_Right, sp)
       IN /\ Set_Point' = sp
          /\ Error' = e
          /\ Duty_Cycle_Right' = Clamp(U16(PWM_NOMINAL - (Kp * e)))
          /\ Duty_Cycle_Left' = Clamp(U16(PWM_NOMINAL + (Kp * e)))
    /\ sidesStamp' = <<stamp[1], stamp[3]>>
    /\ entered' = TRUE
    /\ UNCHANGED << fresh, samplepos, periods, stamp >>
    /\ UNCHANGED << lpfVars, distVars, Kp, Motor, callVars, pc, adcVars, exTorn,
                    TA1_Priority, SysTick_Count, delay, hold, mainpc, since >>

\* Controller_3 from its test of Converted_Distance_Center; the handler
\* returns
Torn_Controller_3_Center ==
    /\ pc = "torn"
    /\ Runs("SysTick")
    /\ Motor' = Command_3(Converted_Distance_Center, Duty_Cycle_Left, Duty_Cycle_Right)
    /\ active' = Pop
    /\ since' = 0
    /\ UNCHANGED tornVars
    /\ UNCHANGED << lpfVars, distVars, Error, Kp, Set_Point, Duty_Cycle_Left,
                    Duty_Cycle_Right, callVars, pc, adcVars, exTorn,
                    TA1_Priority, pending, SysTick_Count, delay, hold, mainpc,
                    entered >>

\* after main's EnableInterrupts
InitTorn ==
    /\ LPF0 /\ Filtered0 /\ Converted0 /\ Ctl0 /\ Calls0 /\ Adc0 /\ Ext0
    /\ TA1_Priority \in TA1_Priorities
    /\ pending = {} /\ active = <<>> /\ SysTick_Count = 0
    /\ delay = 0 /\ hold = 0 /\ mainpc = "loop"
    /\ since = 0 /\ entered = FALSE
    /\ pc = "torn"

NextTorn ==
    \/ Torn_TA1_Fire
    \/ Torn_SysTick_Fire
    \/ \E l \in TornSet, c \in TornSet, r \in TornSet : Torn_Sample_Left(l, c, r)
    \/ Torn_Sample_Center
    \/ Torn_Sample_Right
    \/ Torn_Controller_3_Sides
    \/ Torn_Controller_3_Center

SpecTorn == InitTorn /\ [][NextTorn]_vars

----------------------------------------------------------------------------
(* PMOD_Color.c and main's color loop *)

\* 16-bit channel values the sensor returns
PmodLevels == {100, 300}
PmodSamples == [PMOD_Channels -> PmodLevels]

PMOD_Color_Init_Calibration_Data(first_sample) ==
    [min |-> first_sample, max |-> first_sample]

PMOD_Color_Calibrate(new_sample, cal) ==
    [min |-> [ch \in PMOD_Channels |->
                IF new_sample[ch] < cal.min[ch] THEN new_sample[ch] ELSE cal.min[ch]],
     max |-> [ch \in PMOD_Channels |->
                IF new_sample[ch] > cal.max[ch] THEN new_sample[ch] ELSE cal.max[ch]]]

\* whether PMOD_Color_Normalize_Calibration divides by zero
PMOD_Color_Normalize_Faults(cal) ==
    \E ch \in PMOD_Channels : cal.max[ch] - cal.min[ch] = 0

\* PMOD_Color_Normalize_Calibration where every divisor is nonzero
PMOD_Color_Normalize_Calibration(sample, cal) ==
    [ch \in PMOD_Channels |->
        U16((sample[ch] - cal.min[ch]) * CDiv(65535, cal.max[ch] - cal.min[ch]))]

\* main before its loop: the first sample initialises the calibration data
Pmod_First_Sample(sample) ==
    /\ pc = "pmod_init"
    /\ pmod_color_data' = sample
    /\ calibration_data' = PMOD_Color_Init_Calibration_Data(sample)
    /\ pc' = "pmod_loop"
    /\ UNCHANGED divided_by_zero
    /\ UNCHANGED << lpfVars, distVars, ctlVars, callVars, irqVars, adcVars, exPmod >>

\* one pass of main's loop: PMOD_Color_Get_RGBC, PMOD_Color_Calibrate,
\* PMOD_Color_Normalize_Calibration. A division by zero has no defined
\* outcome: the normalized channels are any values, or the loop is left
Pmod_Loop(sample) ==
    /\ pc = "pmod_loop"
    /\ calibration_data' = PMOD_Color_Calibrate(sample, calibration_data)
    /\ IF PMOD_Color_Normalize_Faults(calibration_data')
       THEN /\ divided_by_zero' = TRUE
            /\ \/ pmod_color_data' \in PmodSamples /\ pc' = pc
               \/ pmod_color_data' = sample /\ pc' = "pmod_fault"
       ELSE /\ pmod_color_data' = PMOD_Color_Normalize_Calibration(sample, calibration_data')
            /\ UNCHANGED << divided_by_zero, pc >>
    /\ UNCHANGED << lpfVars, distVars, ctlVars, callVars, irqVars, adcVars, exPmod >>

InitPmod == Globals0 /\ pc = "pmod_init"

NextPmod ==
    \/ \E s \in PmodSamples : Pmod_First_Sample(s)
    \/ \E s \in PmodSamples : Pmod_Loop(s)

SpecPmod == InitPmod /\ [][NextPmod]_vars

\* C30: whenever main's loop normalizes a sample, the calibration maximum
\* exceeds the calibration minimum on each of the four channels, so no
\* division by zero is executed
C30_MaxAboveMin ==
    [][(\E s \in PmodSamples : Pmod_Loop(s)) =>
          /\ \A ch \in PMOD_Channels :
                calibration_data'.max[ch] > calibration_data'.min[ch]
          /\ ~divided_by_zero']_vars

====
